---- MODULE Spec2Model ----
(***************************************************************************)
(* wiki2graph: the notebook paragraphs.ipynb as a state machine.           *)
(*                                                                         *)
(* The notebook turns per-document JSON records (one directory per shard)  *)
(* into CSV tables (the extraction cell) and loads the tables into a       *)
(* Neo4j store with one LOAD CSV query per table (the loader cells).       *)
(*                                                                         *)
(* Text is modelled as a sequence of characters, so that split('#'),       *)
(* slicing [:400], strip() and concatenation are computed as Python        *)
(* computes them.  A CSV field that is empty reads back as null; null is   *)
(* the empty sequence.                                                     *)
(***************************************************************************)
EXTENDS Integers, Sequences, FiniteSets, TLC

VARIABLES
    input,      \* shard -> the JSON files of data/wiki_json/<shard>, in rglob order
    data,       \* the notebook global `data`: the last record json.loads returned
    csv,        \* shard -> the tables of data/csv/<shard> (NoDir: never written)
    nodes,      \* the store's nodes: [id, label, props]
    edges,      \* the store's relationships: [type, from, to, n]
    out,        \* the log lines of the cell executed last
    failed,     \* the files whose query raised in the cell executed last
    pc,         \* Run All: the cell to execute next
    issued,     \* Run All: the load steps executed since the store was cleared or the run restarted
    everFailed, \* Run All: some query raised since the store was cleared
    restarts,   \* Run All: how often the loader cells were started over
    faults,     \* the load steps in which the store has failed a query so far
    indexes     \* the store: the indexes it holds, [label, prop]

vars == <<input, data, csv, nodes, edges, out, failed, pc, issued, everFailed, restarts, faults,
          indexes>>

--------------------------------------------------------------------------
(* Bounds of the model. *)

\* files (records) in the whole input
MaxRecords == 2
\* times an interrupted Run All is started over
MaxRestarts == 1
\* load steps in which the store fails queries (unreachable, query error)
MaxFaults == 1

--------------------------------------------------------------------------
(* Text. *)

Null == <<>>

IsNull(v) == v = Null

Min(S) == CHOOSE x \in S : \A y \in S : x <= y

\* s[:n]
Take(s, n) == SubSeq(s, 1, IF Len(s) < n THEN Len(s) ELSE n)

\* '#' in s
HasHash(s) == \E i \in 1..Len(s) : s[i] = "#"

\* s.split('#')[0]
BeforeHash(s) ==
    IF HasHash(s)
    THEN SubSeq(s, 1, Min({i \in 1..Len(s) : s[i] = "#"}) - 1)
    ELSE s

\* s.strip()
Strip(s) ==
    LET keep == {i \in 1..Len(s) : s[i] # " "}
    IN  IF keep = {} THEN <<>>
        ELSE SubSeq(s, Min(keep),
                    CHOOSE i \in keep : \A j \in (i + 1)..Len(s) : s[j] = " ")

Digit(d) == CASE d = 0 -> "0" [] d = 1 -> "1" [] d = 2 -> "2" [] d = 3 -> "3"
              [] d = 4 -> "4" [] d = 5 -> "5" [] d = 6 -> "6" [] d = 7 -> "7"
              [] d = 8 -> "8" [] d = 9 -> "9"

\* str(n), n >= 0: how pandas writes an integer cell
RECURSIVE IntToStr(_)
IntToStr(n) == IF n < 10 THEN <<Digit(n)>> ELSE IntToStr(n \div 10) \o <<Digit(n % 10)>>

\* the section key length of the extraction cell
MaxKeyLen == 400

\* the namespace id of category pages
CategoryNamespace == 14

\* 'Kategorie:'
CategoryLabel == <<"K", "a", "t", "e", "g", "o", "r", "i", "e", ":">>

--------------------------------------------------------------------------
(* The source records (data/wiki_json/<shard>/*.json). *)

Shards == <<"000", "001">>

ShardSet == {Shards[i] : i \in 1..Len(Shards)}

\* An optional key of a record is present iff it is in rec.keys.
OptionalKeys == {"authors", "sections", "links", "categories"}

Content(bucket, title, id, ns, sha1, keys, authors, sections, links, categories) ==
    [malformed |-> FALSE, type |-> "content", target |-> Null, bucket |-> bucket,
     title |-> title, id |-> id, namespace |-> ns, sha1 |-> sha1, keys |-> keys,
     authors |-> authors, sections |-> sections, links |-> links,
     categories |-> categories]

Redirect(bucket, title, id, ns, target) ==
    [malformed |-> FALSE, type |-> "redirect", target |-> target, bucket |-> bucket,
     title |-> title, id |-> id, namespace |-> ns, sha1 |-> <<"h0">>, keys |-> {},
     authors |-> <<>>, sections |-> <<>>, links |-> <<>>, categories |-> <<>>]

\* a file json.loads cannot parse
Malformed(bucket) ==
    [malformed |-> TRUE, type |-> "content", target |-> Null, bucket |-> bucket,
     title |-> Null, id |-> 0, namespace |-> 0, sha1 |-> Null, keys |-> {},
     authors |-> <<>>, sections |-> <<>>, links |-> <<>>, categories |-> <<>>]

\* A value of an author entry: a JSON number or a JSON string; None is an
\* absent key or null, which `or` and the tables treat as the empty string.
Num(n) == [num |-> TRUE, n |-> n, s |-> <<>>]

Str(s) == [num |-> FALSE, n |-> 0, s |-> s]

None == Str(<<>>)

Author(id, name) == [id |-> id, name |-> name]

Section(title, level, idx) == [title |-> title, level |-> level, idx |-> idx]

tA == <<"A">>
tB == <<"B">>
tC == <<"C">>
tK == <<"K">>
tR == <<"R">>
tSec1 == <<"S", "e", "c", "1">>
tBSec1 == tB \o <<"#">> \o tSec1

\* article A: links to B#Sec1 and to C, one author, one category
rA == Content("000", tA, 1, 0, <<"h1">>, OptionalKeys,
              <<Author(Num(7), Str(<<"u">>))>>, <<>>, <<tBSec1, tC>>, <<tK>>)

\* article A again, with other attribute values, another name for the author
\* and a link to a section of its own page
rA2 == Content("000", tA, 1, 0, <<"h2">>, OptionalKeys,
               <<Author(Num(7), Str(<<"v">>))>>, <<>>, <<<<"#">> \o tSec1>>, <<>>)

\* article B with the section Sec1; an author with a name only, one with nothing
rB == Content("000", tB, 2, 0, <<"h1">>, OptionalKeys,
              <<Author(None, Str(<<"w">>)), Author(None, None)>>,
              <<Section(tSec1, 2, 1)>>, <<>>, <<>>)

\* the category page K, with an author, a section, a link and a category
rK == Content("000", tK, 5, CategoryNamespace, <<"h1">>, OptionalKeys,
              <<Author(Num(7), Str(<<"u">>))>>, <<Section(tSec1, 2, 1)>>, <<tA>>, <<tK>>)

\* a redirect R -> B#Sec1
rR == Redirect("000", tR, 4, 0, tBSec1)

\* article C of shard 001: an author with an id only, a section title in blanks
rC == Content("001", tC, 3, 0, <<"h1">>, OptionalKeys,
              <<Author(Num(8), None)>>, <<Section(<<" ", "T", " ">>, 2, 1)>>,
              <<tA>>, <<tK>>)

\* The records of the model: the files shard 000 and shard 001 may hold.
Universe == {rA, rA2, rB, rK, rR, Malformed("000"), rC, Malformed("001")}

RecordSeqs == UNION {[1..n -> Universe] : n \in 0..MaxRecords}

\* a text one character longer than a section key
Long == [i \in 1..(MaxKeyLen + 1) |-> "x"]

\* a redirect Q -> A#Sec1 in the category namespace, with an author, a section,
\* a link and a category
rRK == [Redirect("000", <<"Q">>, 6, CategoryNamespace, tA \o <<"#">> \o tSec1)
          EXCEPT !.keys = OptionalKeys,
                 !.authors = <<Author(Num(7), Str(<<"u">>))>>,
                 !.sections = <<Section(tSec1, 2, 1)>>,
                 !.links = <<tA>>,
                 !.categories = <<tK>>]

\* a page of namespace 2, without the keys 'sections' and 'categories'
rU == Content("000", <<"U">>, 9, 2, <<"h1">>, {"authors", "links"},
              <<>>, <<>>, <<>>, <<>>)

\* article Z: an author with the id 0 and a name, an author with the id 0 only
rZ == Content("000", <<"Z">>, 10, 0, <<"h1">>, OptionalKeys,
              <<Author(Num(0), Str(<<"z">>)), Author(Num(0), None)>>, <<>>, <<>>, <<>>)

\* article N, without the key 'authors'
rNoAuthors == Content("000", <<"N">>, 11, 0, <<"h1">>, OptionalKeys \ {"authors"},
                      <<>>, <<>>, <<>>, <<>>)

\* article M, without the key 'links'
rNoLinks == Content("000", <<"M">>, 12, 0, <<"h1">>, OptionalKeys \ {"links"},
                    <<>>, <<>>, <<>>, <<>>)

\* article L: a section title and a link target longer than a section key
rLong == Content("000", <<"L">>, 13, 0, <<"h1">>, OptionalKeys,
                 <<>>, <<Section(Long, 2, 1)>>, <<tB \o <<"#">> \o Long>>, <<>>)

\* a second category page of the title K, with another page id
rK2 == Content("000", tK, 6, CategoryNamespace, <<"h2">>, OptionalKeys,
               <<>>, <<>>, <<>>, <<>>)

\* the page B as a redirect, to the section Sec1 of article B
rRB == Redirect("000", tB, 2, 0, tBSec1)

\* The records of the runs over pages that share a title.
TitleUniverse == {rA, rA2, rB, rRB, rK, rK2}

TitleSeqs == UNION {[1..n -> TitleUniverse] : n \in 0..MaxRecords}

\* The records of the extraction runs.
ExtractUniverse == Universe \cup {rRK, rU, rZ, rNoAuthors, rNoLinks, rLong}

ExtractSeqs == UNION {[1..n -> ExtractUniverse] : n \in 0..MaxRecords}

\* the files of shard b among rs, in order
FilesOf(rs, b) == SelectSeq(rs, LAMBDA r : r.bucket = b)

--------------------------------------------------------------------------
(* The extraction cell. *)

\* bool(v): None, '' and 0 are false
Truthy(v) == IF v.num THEN v.n # 0 ELSE v.s # <<>>

\* a or b
Or(a, b) == IF Truthy(a) THEN a ELSE b

\* str(v): how pandas writes the value into a cell
ToText(v) == IF v.num THEN IntToStr(v.n) ELSE v.s

\* get_authors(info): the (author_id, author_name) tuples, in order
get_authors(info) ==
    LET pair(a) == <<Or(a.id, a.name), Or(a.name, a.id)>>
    IN  SelectSeq([i \in 1..Len(info.authors) |-> pair(info.authors[i])], LAMBDA t : Truthy(t[1]))

\* the section id without the slice [:400]
SectionIdWhole(title, stitle) == title \o <<"#">> \o stitle

\* f"{title}#{section title}"[:400]
SectionId(title, stitle) == Take(title \o <<"#">> \o stitle, MaxKeyLen)

\* The lists of the cell, all empty, and the globals it reads.
NewLists(d) ==
    [articles |-> <<>>, persons |-> {}, article_links |-> <<>>, author_links |-> <<>>,
     redirects |-> <<>>, categories |-> <<>>, article_to_category |-> <<>>,
     sections |-> <<>>, section_links |-> <<>>, article_to_section_links |-> <<>>,
     data |-> d, log |-> <<>>, raised |-> FALSE]

NodeRow(d, title) ==
    [id |-> d.id, title |-> title, namespace_id |-> d.namespace, sha1 |-> d.sha1]

\* the redirect branch without split('#')[0]
RedirectBranchWholeTarget(st, d) ==
    [st EXCEPT !.redirects = Append(@, [from |-> d.title, to |-> d.target])]

\* `if data["type"] == "redirect"`: one redirects row, then continue
RedirectBranch(st, d) ==
    [st EXCEPT !.redirects = Append(@, [from |-> d.title, to |-> BeforeHash(d.target)])]

\* the category branch without the 'Kategorie:' prefix
CategoryBranchPlainTitle(st, d) ==
    [st EXCEPT !.categories = Append(@, NodeRow(d, d.title))]

\* `if info["info"]["namespace"] == 14`: one categories row, then continue
CategoryBranch(st, d) ==
    [st EXCEPT !.categories = Append(@, NodeRow(d, CategoryLabel \o d.title))]

\* the sections loop without section_links.append
WithSectionsNoLinks(st, d) ==
    LET secs == IF "sections" \in d.keys THEN d.sections ELSE <<>>
        row(s) == [title |-> Strip(s.title), level |-> s.level, idx |-> s.idx,
                   id |-> SectionId(d.title, Strip(s.title))]
    IN  [st EXCEPT !.sections = @ \o [i \in 1..Len(secs) |-> row(secs[i])]]

\* the `for section in data.get('sections', [])` loop
WithSections(st, d) ==
    LET secs == IF "sections" \in d.keys THEN d.sections ELSE <<>>
        row(s) == [title |-> Strip(s.title), level |-> s.level, idx |-> s.idx,
                   id |-> SectionId(d.title, Strip(s.title))]
        link(s) == [from |-> SectionId(d.title, Strip(s.title)), to |-> d.title]
    IN  [st EXCEPT !.sections = @ \o [i \in 1..Len(secs) |-> row(secs[i])],
                   !.section_links = @ \o [i \in 1..Len(secs) |-> link(secs[i])]]

\* persons = set(authors) in place of persons.update(authors)
WithArticleAndAuthorsReplace(st, d) ==
    LET st1 == [st EXCEPT !.articles = Append(@, NodeRow(d, d.title))]
        authors == get_authors(d)
        link(a) == [article |-> d.title, person |-> a[1]]
    IN  IF "authors" \notin d.keys THEN [st1 EXCEPT !.raised = TRUE]
        ELSE [st1 EXCEPT !.persons = {authors[i] : i \in 1..Len(authors)},
                         !.author_links = @ \o [i \in 1..Len(authors) |-> link(authors[i])]]

\* persons.update(authors) only while persons is empty
WithArticleAndAuthorsFirstOnly(st, d) ==
    LET st1 == [st EXCEPT !.articles = Append(@, NodeRow(d, d.title))]
        authors == get_authors(d)
        link(a) == [article |-> d.title, person |-> a[1]]
    IN  IF "authors" \notin d.keys THEN [st1 EXCEPT !.raised = TRUE]
        ELSE [st1 EXCEPT !.persons = IF @ = {} THEN {authors[i] : i \in 1..Len(authors)} ELSE @,
                         !.author_links = @ \o [i \in 1..Len(authors) |-> link(authors[i])]]

\* the cell without persons.update(authors)
WithArticleAndAuthorsNoPersons(st, d) ==
    LET st1 == [st EXCEPT !.articles = Append(@, NodeRow(d, d.title))]
        authors == get_authors(d)
        link(a) == [article |-> d.title, person |-> a[1]]
    IN  IF "authors" \notin d.keys THEN [st1 EXCEPT !.raised = TRUE]
        ELSE [st1 EXCEPT !.author_links = @ \o [i \in 1..Len(authors) |-> link(authors[i])]]

\* articles.append, get_authors, persons.update and the author_links loop;
\* info["authors"] raises KeyError when the key is absent
WithArticleAndAuthors(st, d) ==
    LET st1 == [st EXCEPT !.articles = Append(@, NodeRow(d, d.title))]
        authors == get_authors(d)
        link(a) == [article |-> d.title, person |-> a[1]]
    IN  IF "authors" \notin d.keys THEN [st1 EXCEPT !.raised = TRUE]
        ELSE [st1 EXCEPT !.persons = @ \cup {authors[i] : i \in 1..Len(authors)},
                         !.author_links = @ \o [i \in 1..Len(authors) |-> link(authors[i])]]

\* the link loop without `if not target: continue`
WithLinksKeepEmpty(st, d) ==
    LET toSection(t) == [article |-> d.title, section |-> Take(t, MaxKeyLen)]
        toArticle(t) == [from |-> d.title, to |-> BeforeHash(t)]
        hashed == SelectSeq(d.links, HasHash)
    IN  IF "links" \notin d.keys THEN [st EXCEPT !.raised = TRUE]
        ELSE [st EXCEPT
                !.article_to_section_links = @ \o [i \in 1..Len(hashed) |-> toSection(hashed[i])],
                !.article_links = @ \o [i \in 1..Len(d.links) |-> toArticle(d.links[i])]]

\* the `for target, _ in data["links"]` loop; data["links"] raises KeyError when
\* the key is absent
WithLinks(st, d) ==
    LET toSection(t) == [article |-> d.title, section |-> Take(t, MaxKeyLen)]
        toArticle(t) == [from |-> d.title, to |-> BeforeHash(t)]
        hashed == SelectSeq(d.links, HasHash)
        kept == SelectSeq(d.links, LAMBDA t : ~(HasHash(t) /\ BeforeHash(t) = <<>>))
    IN  IF "links" \notin d.keys THEN [st EXCEPT !.raised = TRUE]
        ELSE [st EXCEPT
                !.article_to_section_links = @ \o [i \in 1..Len(hashed) |-> toSection(hashed[i])],
                !.article_links = @ \o [i \in 1..Len(kept) |-> toArticle(kept[i])]]

\* the `for category in data.get('categories', [])` loop
WithCategories(st, d) ==
    LET cats == IF "categories" \in d.keys THEN d.categories ELSE <<>>
        row(c) == [article |-> d.title, category |-> CategoryLabel \o c]
    IN  [st EXCEPT !.article_to_category = @ \o [i \in 1..Len(cats) |-> row(cats[i])]]

\* the namespace tested before the type
ClassifyNamespaceFirst(st, d) ==
    IF d.namespace = CategoryNamespace THEN CategoryBranch(st, d)
    ELSE IF d.type = "redirect" THEN RedirectBranch(st, d)
    ELSE LET s1 == WithArticleAndAuthors(WithSections(st, d), d)
             s2 == IF s1.raised THEN s1 ELSE WithLinks(s1, d)
         IN  IF s2.raised THEN s2 ELSE WithCategories(s2, d)

\* the rest of one iteration, `data` being bound
Classify(st, d) ==
    IF d.type = "redirect" THEN RedirectBranch(st, d)
    ELSE IF d.namespace = CategoryNamespace THEN CategoryBranch(st, d)
    ELSE LET s1 == WithArticleAndAuthors(WithSections(st, d), d)
             s2 == IF s1.raised THEN s1 ELSE WithLinks(s1, d)
         IN  IF s2.raised THEN s2 ELSE WithCategories(s2, d)

\* One iteration of `for file in path.rglob('*.json')`.  A file that does not
\* parse is logged and leaves `data` as it was: the iteration goes on with the
\* record of the file before it, and raises NameError when there is none.
ProcessFile(st, file) ==
    LET st1 == IF file.malformed
               THEN [st EXCEPT !.log = Append(@, [level |-> "ERROR", shard |-> file.bucket,
                                                 file |-> "json"])]
               ELSE [st EXCEPT !.data = <<file>>]
    IN  IF st1.data = <<>> THEN [st1 EXCEPT !.raised = TRUE]
        ELSE Classify(st1, st1.data[1])

\* the whole loop; an exception ends it
RECURSIVE ExtractLoop(_, _, _)
ExtractLoop(st, files, i) ==
    IF i > Len(files) \/ st.raised THEN st
    ELSE ExtractLoop(ProcessFile(st, files[i]), files, i + 1)

--------------------------------------------------------------------------
(* The tables (data/csv/<shard>/*.csv). *)

\* pandas writes an integer cell as its decimal digits
ToCsv(objects, intColumns) ==
    LET field(r, f) == IF f \in intColumns THEN IntToStr(r[f]) ELSE r[f]
    IN  [i \in 1..Len(objects) |-> [f \in DOMAIN objects[i] |-> field(objects[i], f)]]

\* all orders list(a set) may have
Orders(S) ==
    {q \in [1..Cardinality(S) -> S] : \A i, j \in 1..Cardinality(S) : i # j => q[i] # q[j]}

NoTables ==
    [written |-> FALSE, articles |-> <<>>, persons |-> <<>>, article_links |-> <<>>,
     author_links |-> <<>>, redirects |-> <<>>, categories |-> <<>>,
     article_to_category |-> <<>>, sections |-> <<>>, section_links |-> <<>>,
     article_to_section_links |-> <<>>]

\* the ten save_csv calls; persons is written in the order `people` of list(persons)
SaveAll(st, people) ==
    [written |-> TRUE,
     articles |-> ToCsv(st.articles, {"id", "namespace_id"}),
     persons |-> [i \in 1..Len(people) |->
                    [id |-> ToText(people[i][1]), name |-> ToText(people[i][2])]],
     article_links |-> st.article_links,
     author_links |-> [i \in 1..Len(st.author_links) |->
                         [article |-> st.author_links[i].article,
                          person |-> ToText(st.author_links[i].person)]],
     redirects |-> st.redirects,
     categories |-> ToCsv(st.categories, {"id", "namespace_id"}),
     article_to_category |-> st.article_to_category,
     sections |-> ToCsv(st.sections, {"level", "idx"}),
     section_links |-> st.section_links,
     article_to_section_links |-> st.article_to_section_links]

--------------------------------------------------------------------------
(* The store: what one LOAD CSV query does to it.                          *)
(*                                                                         *)
(* A node is [id, label, props].  Neo4j gives every node an identity of    *)
(* its own; the model names it <<label, key, n>>: the label and the key    *)
(* value the node was created with, and n, one more than the number of     *)
(* nodes created with that label and key before it.  A relationship is     *)
(* [type, from, to, n], from and to being node identities, and n counting  *)
(* the relationships of that type between the two nodes.                   *)

\* A CSV field read by LOAD CSV: the empty field is null.
Field(row, col) == IF col \in DOMAIN row THEN row[col] ELSE Null

\* (x:label {prop: value}): the nodes the pattern matches; null matches nothing
MatchNodes(ns, label, prop, value) ==
    IF IsNull(value) THEN {}
    ELSE {x \in ns : /\ x.label = label
                     /\ prop \in DOMAIN x.props
                     /\ x.props[prop] = value}

\* ON CREATE SET x.f = row.f, ...: a null value sets no property
CreatedProps(tpl, row) ==
    LET cols == {f \in tpl.set \cup {tpl.key} : ~IsNull(Field(row, f))}
    IN  [f \in cols |-> Field(row, f)]

\* a new node of the label, created with the key
NewNode(ns, label, key, props) ==
    [id |-> <<label, key, 1 + Cardinality({x \in ns : x.id[1] = label /\ x.id[2] = key})>>,
     label |-> label, props |-> props]

\* CREATE in place of MERGE: a node for every row
CreateNode(store, tpl, row) ==
    LET key == Field(row, tpl.key)
    IN  IF IsNull(key) THEN [store EXCEPT !.ok = FALSE]
        ELSE [store EXCEPT
                !.nodes = @ \cup {NewNode(@, tpl.label, key, CreatedProps(tpl, row))}]

\* SET in place of ON CREATE SET: a matched node takes the row's values
MergeNodeSetAlways(store, tpl, row) ==
    LET key == Field(row, tpl.key)
        hit == MatchNodes(store.nodes, tpl.label, tpl.key, key)
    IN  IF IsNull(key) THEN [store EXCEPT !.ok = FALSE]
        ELSE IF hit # {}
        THEN [store EXCEPT
                !.nodes = (@ \ hit) \cup {[x EXCEPT !.props = CreatedProps(tpl, row)] : x \in hit}]
        ELSE [store EXCEPT
                !.nodes = @ \cup {NewNode(@, tpl.label, key, CreatedProps(tpl, row))}]

\* MERGE (x:label {key: row.key}) ON CREATE SET ...: the node is created, with
\* its properties, only when no node matches; a null key is an error
MergeNode(store, tpl, row) ==
    LET key == Field(row, tpl.key)
    IN  IF IsNull(key) THEN [store EXCEPT !.ok = FALSE]
        ELSE IF MatchNodes(store.nodes, tpl.label, tpl.key, key) # {} THEN store
        ELSE [store EXCEPT
                !.nodes = @ \cup {NewNode(@, tpl.label, key, CreatedProps(tpl, row))}]

Between(es, type, a, b) == {e \in es : e.type = type /\ e.from = a /\ e.to = b}

\* CREATE (a)-[:TYPE]->(b): one more relationship every time
CreateEdge(es, type, a, b) ==
    es \cup {[type |-> type, from |-> a, to |-> b,
              n |-> 1 + Cardinality(Between(es, type, a, b))]}

\* MERGE (a)-[:TYPE]->(b) for bound a and b: created unless one exists
MergeEdge(es, type, a, b) ==
    IF Between(es, type, a, b) # {} THEN es
    ELSE es \cup {[type |-> type, from |-> a, to |-> b, n |-> 1]}

RECURSIVE MergeEdges(_, _, _)
MergeEdges(es, type, pairs) ==
    IF pairs = {} THEN es
    ELSE LET p == CHOOSE q \in pairs : TRUE
         IN  MergeEdges(MergeEdge(es, type, p[1], p[2]), type, pairs \ {p})

\* MERGE (a:..) MERGE (b:..) MERGE (a)-[:TYPE]->(b): a missing endpoint is created
MergeLink(store, tpl, row) ==
    LET fromKey == Field(row, tpl.fromCol)
        toKey == Field(row, tpl.toCol)
        n1 == IF IsNull(fromKey) \/ MatchNodes(store.nodes, tpl.fromLabel, tpl.fromProp, fromKey) # {}
              THEN store.nodes
              ELSE store.nodes \cup {NewNode(store.nodes, tpl.fromLabel, fromKey,
                                             [f \in {tpl.fromProp} |-> fromKey])}
        n2 == IF IsNull(toKey) \/ MatchNodes(n1, tpl.toLabel, tpl.toProp, toKey) # {}
              THEN n1
              ELSE n1 \cup {NewNode(n1, tpl.toLabel, toKey, [f \in {tpl.toProp} |-> toKey])}
        from == MatchNodes(n2, tpl.fromLabel, tpl.fromProp, fromKey)
        to == MatchNodes(n2, tpl.toLabel, tpl.toProp, toKey)
    IN  [store EXCEPT
            !.nodes = n2,
            !.edges = MergeEdges(@, tpl.type, {<<a.id, b.id>> : a \in from, b \in to})]

\* a row whose endpoint is missing fails the query
MatchLinkOrFail(store, tpl, row) ==
    LET from == MatchNodes(store.nodes, tpl.fromLabel, tpl.fromProp, Field(row, tpl.fromCol))
        to == MatchNodes(store.nodes, tpl.toLabel, tpl.toProp, Field(row, tpl.toCol))
    IN  IF from = {} \/ to = {} THEN [store EXCEPT !.ok = FALSE]
        ELSE [store EXCEPT
                !.edges = MergeEdges(@, tpl.type, {<<a.id, b.id>> : a \in from, b \in to})]

\* MATCH (a:..) MATCH (b:..) MERGE (a)-[:TYPE]->(b): one MERGE for every pair
\* of matched nodes; a row one of whose MATCHes finds nothing yields no pair
MatchLink(store, tpl, row) ==
    LET from == MatchNodes(store.nodes, tpl.fromLabel, tpl.fromProp, Field(row, tpl.fromCol))
        to == MatchNodes(store.nodes, tpl.toLabel, tpl.toProp, Field(row, tpl.toCol))
    IN  [store EXCEPT
            !.edges = MergeEdges(@, tpl.type, {<<a.id, b.id>> : a \in from, b \in to})]

ApplyRow(store, tpl, row) ==
    IF tpl.kind = "node" THEN MergeNode(store, tpl, row) ELSE MatchLink(store, tpl, row)

\* the rows of one file, in order; an error ends the query
RECURSIVE ApplyRows(_, _, _, _)
ApplyRows(store, tpl, rows, i) ==
    IF i > Len(rows) \/ ~store.ok THEN store
    ELSE ApplyRows(ApplyRow(store, tpl, rows[i]), tpl, rows, i + 1)

\* run_cypher_query: one auto-commit query over one file
run_cypher_query(ns, es, tpl, rows) ==
    ApplyRows([ok |-> TRUE, nodes |-> ns, edges |-> es], tpl, rows, 1)

--------------------------------------------------------------------------
(* The query templates of the loader cells. *)

NodeTemplate(file, label, key, set) ==
    [kind |-> "node", file |-> file, label |-> label, key |-> key, set |-> set]

LinkTemplate(file, type, fromLabel, fromProp, fromCol, toLabel, toProp, toCol) ==
    [kind |-> "link", file |-> file, type |-> type,
     fromLabel |-> fromLabel, fromProp |-> fromProp, fromCol |-> fromCol,
     toLabel |-> toLabel, toProp |-> toProp, toCol |-> toCol]

article_query_template ==
    NodeTemplate("articles", "Article", "title", {"title", "namespace_id", "sha1"})

persons_query_template ==
    NodeTemplate("persons", "Author", "id", {"id", "name"})

author_links_query_template ==
    LinkTemplate("author_links", "AUTHORED",
                 "Author", "id", "person", "Article", "title", "article")

article_links_query_template ==
    LinkTemplate("article_links", "LINKS_TO",
                 "Article", "title", "from", "Article", "title", "to")

redirects_query_template ==
    LinkTemplate("redirects", "REDIRECTS_TO",
                 "Article", "title", "from", "Article", "title", "to")

sections_query_template ==
    NodeTemplate("sections", "Section", "id", {"id", "title", "level", "idx"})

categories_query_template ==
    NodeTemplate("categories", "Category", "id", {"id", "title", "namespace_id", "sha1"})

article_to_category_query_template ==
    LinkTemplate("article_to_category", "IS_IN_CATEGORY",
                 "Article", "title", "article", "Article", "title", "category")

article_to_section_links_query_template ==
    LinkTemplate("article_to_section_links", "LINKS_TO",
                 "Article", "title", "article", "Section", "id", "section")

\* the sections cell moved below the cell that links to sections
LoaderCellsSectionsLast ==
    << article_query_template,
       persons_query_template,
       author_links_query_template,
       article_links_query_template,
       redirects_query_template,
       categories_query_template,
       article_to_category_query_template,
       article_to_section_links_query_template,
       sections_query_template >>

\* the loader cells, in the order of the notebook
LoaderCells ==
    << article_query_template,
       persons_query_template,
       author_links_query_template,
       article_links_query_template,
       redirects_query_template,
       sections_query_template,
       categories_query_template,
       article_to_category_query_template,
       article_to_section_links_query_template >>

--------------------------------------------------------------------------
(* import_data: the loop of one loader cell over the files its pattern finds. *)

LogLine(level, shard, file) == [level |-> level, shard |-> shard, file |-> file]

\* the exception is logged and raised again
ImportFileReraise(res, rows, tpl, shard, unreachable) ==
    LET q == run_cypher_query(res.nodes, res.edges, tpl, rows)
    IN  IF shard \in unreachable \/ ~q.ok
        THEN [res EXCEPT !.out = Append(@, LogLine("ERROR", shard, tpl.file)),
                         !.failed = @ \cup {shard}, !.raised = TRUE]
        ELSE [res EXCEPT !.nodes = q.nodes, !.edges = q.edges, !.returned = TRUE,
                         !.out = Append(@, LogLine("INFO", shard, tpl.file))]

\* One file of the loop, `unreachable` being the files whose query the store
\* fails: the query runs, success is logged and ends the function (`return
\* res`); an exception is logged and the loop goes on.
ImportFile(res, rows, tpl, shard, unreachable) ==
    LET q == run_cypher_query(res.nodes, res.edges, tpl, rows)
    IN  IF shard \in unreachable \/ ~q.ok
        THEN [res EXCEPT !.out = Append(@, LogLine("ERROR", shard, tpl.file)),
                         !.failed = @ \cup {shard}]
        ELSE [res EXCEPT !.nodes = q.nodes, !.edges = q.edges, !.returned = TRUE,
                         !.out = Append(@, LogLine("INFO", shard, tpl.file))]

RECURSIVE ImportLoop(_, _, _, _, _)
ImportLoop(res, tables, tpl, unreachable, i) ==
    IF i > Len(Shards) \/ res.returned \/ res.raised THEN res
    ELSE IF ~tables[Shards[i]].written
         THEN ImportLoop(res, tables, tpl, unreachable, i + 1)
         ELSE ImportLoop(ImportFile(res, tables[Shards[i]][tpl.file], tpl, Shards[i],
                                    unreachable),
                         tables, tpl, unreachable, i + 1)

import_data(ns, es, tables, tpl, unreachable) ==
    ImportLoop([nodes |-> ns, edges |-> es, out |-> <<>>, failed |-> {},
                returned |-> FALSE, raised |-> FALSE],
               tables, tpl, unreachable, 1)

--------------------------------------------------------------------------
(* clear(): the index statements. *)

IndexStatement(label, prop) == [label |-> label, prop |-> prop]

\* The list `queries` of clear().  Each element is one string handed to
\* session.run; no comma separates the third and the fourth literal, so they
\* are one string of two statements.
queries ==
    <<<<IndexStatement("Article", "title")>>,
      <<IndexStatement("Author", "id")>>,
      <<IndexStatement("Section", "id"), IndexStatement("CATEGORY", "title")>>>>

\* session.run(query) under try/except: a string of one statement creates its
\* index unless the store has it; a string of several statements is rejected
\* as a whole.  The exception is swallowed and the loop goes on.
RunIndexQuery(ix, query) ==
    IF Len(query) = 1 /\ query[1] \notin ix THEN ix \cup {query[1]} ELSE ix

RECURSIVE CreateIndexes(_, _, _)
CreateIndexes(ix, qs, i) ==
    IF i > Len(qs) THEN ix
    ELSE CreateIndexes(RunIndexQuery(ix, qs[i]), qs, i + 1)

--------------------------------------------------------------------------
(* The cells. *)

\* The extraction cell with path = data/wiki_json/<shard>: the lists are reset,
\* the files of the shard processed and the ten tables written; an exception
\* leaves the tables as they were.
ExtractCell(shard) ==
    LET st == ExtractLoop(NewLists(data), input[shard], 1)
    IN  /\ data' = st.data
        /\ out' = st.log
        /\ failed' = {}
        /\ IF st.raised THEN csv' = csv
           ELSE \E people \in Orders(st.persons) :
                    csv' = [csv EXCEPT ![shard] = SaveAll(st, people)]
        /\ UNCHANGED <<input, nodes, edges, faults, indexes>>

CellRaises(shard) == ExtractLoop(NewLists(data), input[shard], 1).raised

\* the nodes deleted and their relationships left behind
ClearCellKeepEdges ==
    /\ nodes' = {}
    /\ edges' = edges
    /\ out' = <<LogLine("INFO", "", "clear_database")>>
    /\ failed' = {}
    /\ indexes' = CreateIndexes(indexes, queries, 1)
    /\ UNCHANGED <<input, data, csv, faults>>

\* clear(): MATCH (n) DETACH DELETE n, then the index statements
ClearCell ==
    /\ nodes' = {}
    /\ edges' = {}
    /\ out' = <<LogLine("INFO", "", "clear_database")>>
    /\ failed' = {}
    /\ indexes' = CreateIndexes(indexes, queries, 1)
    /\ UNCHANGED <<input, data, csv, faults>>

\* A loader cell: import_data over the files of its table.
LoadCell(tpl, unreachable) ==
    LET res == import_data(nodes, edges, csv, tpl, unreachable)
    IN  /\ unreachable # {} => faults < MaxFaults
        /\ faults' = IF unreachable # {} THEN faults + 1 ELSE faults
        /\ unreachable \subseteq res.failed
        /\ nodes' = res.nodes
        /\ edges' = res.edges
        /\ out' = res.out
        /\ failed' = res.failed
        /\ UNCHANGED <<input, data, csv, indexes>>

LoadRaises(tpl, unreachable) == import_data(nodes, edges, csv, tpl, unreachable).raised

--------------------------------------------------------------------------
(* Run All: the cells top to bottom; an exception leaving a cell stops the run. *)

Program ==
    [i \in 1..Len(Shards) |-> [op |-> "extract", shard |-> Shards[i]]]
    \o <<[op |-> "clear"]>>
    \o [i \in 1..Len(LoaderCells) |-> [op |-> "load", tpl |-> LoaderCells[i]]]

FirstLoad == Len(Shards) + 2

Done == Len(Program) + 1

Aborted == 0

Running == pc \in 1..Len(Program)

Init ==
    /\ \E rs \in RecordSeqs : input = [b \in ShardSet |-> FilesOf(rs, b)]
    /\ data = <<>>
    /\ csv = [b \in ShardSet |-> NoTables]
    /\ nodes = {}
    /\ edges = {}
    /\ out = <<>>
    /\ failed = {}
    /\ pc = 1
    /\ issued = <<>>
    /\ everFailed = FALSE
    /\ restarts = 0
    /\ faults = 0
    /\ indexes = {}

RunExtract ==
    /\ Running
    /\ Program[pc].op = "extract"
    /\ ExtractCell(Program[pc].shard)
    /\ pc' = IF CellRaises(Program[pc].shard) THEN Aborted ELSE pc + 1
    /\ UNCHANGED <<issued, everFailed, restarts>>

RunClear ==
    /\ Running
    /\ Program[pc].op = "clear"
    /\ ClearCell
    /\ pc' = pc + 1
    /\ issued' = <<>>
    /\ everFailed' = FALSE
    /\ UNCHANGED restarts

RunLoad ==
    /\ Running
    /\ Program[pc].op = "load"
    /\ \E unreachable \in SUBSET ShardSet :
          /\ LoadCell(Program[pc].tpl, unreachable)
          /\ pc' = IF LoadRaises(Program[pc].tpl, unreachable) THEN Aborted ELSE pc + 1
    /\ issued' = Append(issued, Program[pc].tpl.file)
    /\ everFailed' = (everFailed \/ failed' # {})
    /\ UNCHANGED restarts

\* The run is interrupted after a load step and the loader cells are run again
\* from the first one, over the same tables and the store as it is.
Restart ==
    /\ pc \in (FirstLoad + 1)..Done
    /\ restarts < MaxRestarts
    /\ pc' = FirstLoad
    /\ issued' = <<>>
    /\ restarts' = restarts + 1
    /\ UNCHANGED <<input, data, csv, nodes, edges, out, failed, everFailed, faults, indexes>>

Next == RunExtract \/ RunClear \/ RunLoad \/ Restart

Spec == Init /\ [][Next]_vars

--------------------------------------------------------------------------
(* The cells run by hand, in any order. *)

AnyExtract ==
    /\ \E b \in ShardSet : ExtractCell(b)
    /\ UNCHANGED <<pc, issued, everFailed, restarts>>

AnyClear ==
    /\ ClearCell
    /\ UNCHANGED <<pc, issued, everFailed, restarts>>

AnyLoad ==
    /\ \E i \in 1..Len(LoaderCells), unreachable \in SUBSET ShardSet :
          LoadCell(LoaderCells[i], unreachable)
    /\ UNCHANGED <<pc, issued, everFailed, restarts>>

NextCells == AnyExtract \/ AnyClear \/ AnyLoad

SpecCells == Init /\ [][NextCells]_vars

--------------------------------------------------------------------------
(* The extraction cell alone, run by hand over either shard, any number of *)
(* times, over the records of ExtractUniverse.                             *)

InitExtract ==
    /\ \E rs \in ExtractSeqs : input = [b \in ShardSet |-> FilesOf(rs, b)]
    /\ data = <<>>
    /\ csv = [b \in ShardSet |-> NoTables]
    /\ nodes = {}
    /\ edges = {}
    /\ out = <<>>
    /\ failed = {}
    /\ pc = 1
    /\ issued = <<>>
    /\ everFailed = FALSE
    /\ restarts = 0
    /\ faults = 0
    /\ indexes = {}

NextExtract == AnyExtract

SpecExtract == InitExtract /\ [][NextExtract]_vars

--------------------------------------------------------------------------
(* The cells run by hand, in any order, over the records of TitleUniverse. *)

InitTitles ==
    /\ \E rs \in TitleSeqs : input = [b \in ShardSet |-> FilesOf(rs, b)]
    /\ data = <<>>
    /\ csv = [b \in ShardSet |-> NoTables]
    /\ nodes = {}
    /\ edges = {}
    /\ out = <<>>
    /\ failed = {}
    /\ pc = 1
    /\ issued = <<>>
    /\ everFailed = FALSE
    /\ restarts = 0
    /\ faults = 0
    /\ indexes = {}

SpecTitles == InitTitles /\ [][NextCells]_vars

--------------------------------------------------------------------------
(* What the claims speak of. *)

NodeFiles == {"articles", "persons", "categories", "sections"}

EdgeFiles == {"author_links", "article_to_category", "article_links",
              "article_to_section_links", "redirects", "section_links"}

NodeTemplates == {LoaderCells[i] : i \in {j \in 1..Len(LoaderCells) : LoaderCells[j].kind = "node"}}

LinkTemplates == {LoaderCells[i] : i \in {j \in 1..Len(LoaderCells) : LoaderCells[j].kind = "link"}}

WrittenShards == {b \in ShardSet : csv[b].written}

Before(i) == {issued[j] : j \in 1..(i - 1)}

\* the last cell executed was the loader cell of `file` and its query succeeded
JustLoaded(file) ==
    /\ out # <<>>
    /\ out[Len(out)] \in {LogLine("INFO", b, file) : b \in ShardSet}

\* the run reached its end, no query having failed since the store was cleared
LoadedClean == pc = Done /\ ~everFailed

NodesWith(label, prop, value) == MatchNodes(nodes, label, prop, value)

--------------------------------------------------------------------------
(* C1 *)

\* C1 (as claimed): in a loader run no edge-load step starts before all four
\* node-load steps (articles, persons, categories, sections) have completed.
C1_EdgesAfterAllNodes ==
    \A i \in 1..Len(issued) : issued[i] \in EdgeFiles => NodeFiles \subseteq Before(i)

\* the node tables whose nodes the rows of an edge table name
EndpointTables(file) ==
    CASE file = "author_links" -> {"persons", "articles"}
      [] file = "article_links" -> {"articles"}
      [] file = "redirects" -> {"articles"}
      [] file = "article_to_category" -> {"articles", "categories"}
      [] file = "article_to_section_links" -> {"articles", "sections"}
      [] file = "section_links" -> {"sections", "articles"}
      [] OTHER -> {}

NotebookOrder ==
    <<"articles", "persons", "author_links", "article_links", "redirects",
      "sections", "categories", "article_to_category", "article_to_section_links">>

\* C1 (amended): a loader run issues its steps in the order articles, persons,
\* author_links, article_links, redirects, sections, categories,
\* article_to_category, article_to_section_links; every edge-load step starts
\* only after the node-load steps of its own endpoint kinds have completed.
C1_EdgesAfterTheirNodes ==
    /\ Len(issued) <= Len(NotebookOrder)
    /\ issued = SubSeq(NotebookOrder, 1, Len(issued))
    /\ \A i \in 1..Len(issued) : EndpointTables(issued[i]) \subseteq Before(i)

\* a run that executed every loader cell, the AUTHORED step before the
\* sections and categories steps
C1_Witness ==
    /\ pc = Done
    /\ Len(issued) = Len(LoaderCells)
    /\ \E i, j \in 1..Len(issued) : i < j /\ issued[i] = "author_links" /\ issued[j] = "sections"

--------------------------------------------------------------------------
(* C2 *)

StoreNow == [ok |-> TRUE, nodes |-> nodes, edges |-> edges]

FromNodes(ns, tpl, row) == MatchNodes(ns, tpl.fromLabel, tpl.fromProp, Field(row, tpl.fromCol))

ToNodes(ns, tpl, row) == MatchNodes(ns, tpl.toLabel, tpl.toProp, Field(row, tpl.toCol))

\* both nodes the row names are in ns
EndpointsPresent(ns, tpl, row) == FromNodes(ns, tpl, row) # {} /\ ToNodes(ns, tpl, row) # {}

\* the relationship the row asks for is in es
Linked(ns, es, tpl, row) ==
    \A a \in FromNodes(ns, tpl, row), b \in ToNodes(ns, tpl, row) :
        Between(es, tpl.type, a.id, b.id) # {}

NodeCells == SelectSeq(LoaderCells, LAMBDA t : t.kind = "node")

\* every written file of the node tables loaded into the store st, one query a file
RECURSIVE WithNodeTables(_, _, _)
WithNodeTables(st, i, j) ==
    IF i > Len(NodeCells) THEN st
    ELSE IF j > Len(Shards) THEN WithNodeTables(st, i + 1, 1)
    ELSE IF ~csv[Shards[j]].written THEN WithNodeTables(st, i, j + 1)
    ELSE WithNodeTables(ApplyRows(st, NodeCells[i], csv[Shards[j]][NodeCells[i].file], 1),
                        i, j + 1)

\* the edge table of tpl in shard b loaded into the store as it is
Early(tpl, b) == ApplyRows(StoreNow, tpl, csv[b][tpl.file], 1)

\* then the node tables, then the same edge table again
Again(tpl, b) == ApplyRows(WithNodeTables(Early(tpl, b), 1, 1), tpl, csv[b][tpl.file], 1)

\* C2: loading an edge table while endpoint nodes are missing raises no error
\* and creates no relationship for the rows with a missing endpoint (the store
\* is as if only the other rows had been loaded); when the node tables are
\* loaded next and the edge table again, every row whose endpoints are then in
\* the store has its relationship.
C2_EdgeTableBeforeNodes ==
    \A tpl \in LinkTemplates, b \in WrittenShards :
        LET rows == csv[b][tpl.file]
            present == SelectSeq(rows, LAMBDA r : EndpointsPresent(nodes, tpl, r))
            early == Early(tpl, b)
            again == Again(tpl, b)
        IN  /\ early.ok
            /\ early.nodes = nodes
            /\ early.edges = ApplyRows(StoreNow, tpl, present, 1).edges
            /\ again.ok
            /\ \A i \in 1..Len(rows) :
                  EndpointsPresent(again.nodes, tpl, rows[i])
                      => Linked(again.nodes, again.edges, tpl, rows[i])

\* an edge cell has just run on the empty store and created nothing; loading the
\* node tables and the edge table again creates relationships
C2_Witness ==
    \E tpl \in LinkTemplates, b \in WrittenShards :
        /\ JustLoaded(tpl.file)
        /\ nodes = {}
        /\ edges = {}
        /\ csv[b][tpl.file] # <<>>
        /\ Again(tpl, b).edges # {}

--------------------------------------------------------------------------
(* C3 *)

\* the node table of tpl in shard b loaded into the store st
Once(st, tpl, b) == ApplyRows(st, tpl, csv[b][tpl.file], 1)

\* C3: for every node table and every store state, loading the table twice
\* leaves the store as loading it once does: the same nodes with the same
\* attribute values and the same relationships, and one node for a key.
C3_NodeLoadTwice ==
    \A tpl \in NodeTemplates, b \in WrittenShards :
        LET once == Once(StoreNow, tpl, b)
            twice == Once(once, tpl, b)
            rows == csv[b][tpl.file]
        IN  /\ once.ok
            /\ twice = once
            /\ \A i \in 1..Len(rows) :
                  Cardinality(MatchNodes(twice.nodes, tpl.label, tpl.key, rows[i][tpl.key])) = 1

\* the articles cell has just loaded a table with a row for A into a store that
\* held Article A already: there is one Article A
C3_Witness ==
    /\ JustLoaded("articles")
    /\ \E b \in WrittenShards : \E i \in 1..Len(csv[b].articles) : csv[b].articles[i].title = tA
    /\ Cardinality(NodesWith("Article", "title", tA)) = 1
    /\ \E e \in edges : e.to = <<"Article", tA, 1>>

--------------------------------------------------------------------------
(* C5 *)

\* C5: an edge-load step creates and changes no node, whatever the store holds
\* and whichever queries fail; a row with a missing endpoint raises no error
\* and does not create the endpoint.
C5_EdgeLoadKeepsNodes ==
    \A tpl \in LinkTemplates :
        /\ \A unreachable \in SUBSET ShardSet :
              LET res == import_data(nodes, edges, csv, tpl, unreachable)
              IN  res.nodes = nodes /\ ~res.raised /\ res.failed \subseteq unreachable
        /\ \A b \in WrittenShards :
              LET rows == csv[b][tpl.file]
              IN  \A i \in 1..Len(rows) :
                     LET q == ApplyRow(StoreNow, tpl, rows[i])
                     IN  /\ q.ok
                         /\ q.nodes = nodes
                         /\ ~EndpointsPresent(nodes, tpl, rows[i]) => q.edges = edges

\* an edge cell has just loaded a table one of whose rows names a node that is not
\* in the store, which holds other nodes
C5_Witness ==
    \E tpl \in LinkTemplates, b \in WrittenShards :
        /\ out = <<LogLine("INFO", b, tpl.file)>>
        /\ nodes # {}
        /\ edges # {}
        /\ \E i \in 1..Len(csv[b][tpl.file]) : ~EndpointsPresent(nodes, tpl, csv[b][tpl.file][i])

--------------------------------------------------------------------------
(* C6 *)

\* C6: a node-load row whose key is in the store leaves the store as it is,
\* the node keeping its attribute values also when the row carries other
\* values; a row whose key is not in the store creates one node, with the
\* values of the row.
C6_OnCreateOnly ==
    \A tpl \in NodeTemplates, b \in WrittenShards :
        LET rows == csv[b][tpl.file]
        IN  \A i \in 1..Len(rows) :
               LET q == ApplyRow(StoreNow, tpl, rows[i])
                   hit == MatchNodes(nodes, tpl.label, tpl.key, rows[i][tpl.key])
               IN  /\ q.ok
                   /\ hit # {} => q.nodes = nodes
                   /\ hit = {} =>
                        /\ nodes \subseteq q.nodes
                        /\ \E x \in q.nodes \ nodes :
                              /\ q.nodes = nodes \cup {x}
                              /\ x.label = tpl.label
                              /\ x.props = [f \in {tpl.key} \cup tpl.set |-> rows[i][f]]

\* the articles cell has just loaded a table with two rows for A that differ in
\* sha1: the node has the values of the first row
C6_Witness ==
    /\ out = <<LogLine("INFO", "000", "articles")>>
    /\ \E i, j \in 1..Len(csv["000"].articles) :
          /\ i < j
          /\ csv["000"].articles[i].title = tA
          /\ csv["000"].articles[j].title = tA
          /\ csv["000"].articles[i].sha1 # csv["000"].articles[j].sha1
          /\ \E x \in NodesWith("Article", "title", tA) :
                x.props.sha1 = csv["000"].articles[i].sha1

--------------------------------------------------------------------------
(* C4 *)

HasEdge(type, a, b) == Between(edges, type, a, b) # {}

\* C4 (as claimed): from the two records article A (links to B#Sec1 and to C)
\* and article B (one section Sec1), after extraction and the full load the
\* store holds the Articles A, B and C and the Section B#Sec1, and the
\* relationships A -LINKS_TO-> C, A -LINKS_TO-> B#Sec1 and B#Sec1 -PART_OF-> B.
C4_EndToEnd ==
    (/\ LoadedClean
     /\ input["000"] \in {<<rA, rB>>, <<rB, rA>>}
     /\ input["001"] = <<>>)
    => /\ NodesWith("Article", "title", tA) # {}
       /\ NodesWith("Article", "title", tB) # {}
       /\ NodesWith("Article", "title", tC) # {}
       /\ NodesWith("Section", "id", tBSec1) # {}
       /\ HasEdge("LINKS_TO", <<"Article", tA, 1>>, <<"Article", tC, 1>>)
       /\ HasEdge("LINKS_TO", <<"Article", tA, 1>>, <<"Section", tBSec1, 1>>)
       /\ HasEdge("PART_OF", <<"Section", tBSec1, 1>>, <<"Article", tB, 1>>)

--------------------------------------------------------------------------
(* C7 *)

\* C7 (as claimed): after a full load, every article_to_category row whose
\* article is an Article node and whose category title is that of a Category
\* node has its IS_IN_CATEGORY relationship from the Article to the Category.
C7_ArticleInCategory ==
    LoadedClean =>
        \A b \in WrittenShards :
            \A i \in 1..Len(csv[b].article_to_category) :
                \A a \in NodesWith("Article", "title", csv[b].article_to_category[i].article),
                   c \in NodesWith("Category", "title", csv[b].article_to_category[i].category) :
                    HasEdge("IS_IN_CATEGORY", a.id, c.id)

--------------------------------------------------------------------------
(* C8 *)

\* C8 (as claimed): a full loader run loads section_links, and after it every
\* section_links row whose Section and Article are in the store has its
\* PART_OF relationship from the Section to the Article.
C8_PartOfLoaded ==
    LoadedClean =>
        /\ \E i \in 1..Len(issued) : issued[i] = "section_links"
        /\ \A b \in WrittenShards :
              \A i \in 1..Len(csv[b].section_links) :
                  \A x \in NodesWith("Section", "id", csv[b].section_links[i].from),
                     a \in NodesWith("Article", "title", csv[b].section_links[i].to) :
                      HasEdge("PART_OF", x.id, a.id)

--------------------------------------------------------------------------
(* C9 *)

\* the loader cells from the i-th on, run once each, no query failing
RECURSIVE CleanRun(_, _, _)
CleanRun(ns, es, i) ==
    IF i > Len(LoaderCells) THEN [nodes |-> ns, edges |-> es]
    ELSE LET res == import_data(ns, es, csv, LoaderCells[i], {})
         IN  CleanRun(res.nodes, res.edges, i + 1)

\* C9: when a run was interrupted after a load step and the loader cells were
\* run again from the first one over the same tables, no query failing, the
\* store at the end is the store of one uninterrupted run, and no node and no
\* relationship is there twice.
C9_RestartSameStore ==
    LoadedClean =>
        /\ nodes = CleanRun({}, {}, 1).nodes
        /\ edges = CleanRun({}, {}, 1).edges
        /\ \A x \in nodes : x.id[3] = 1
        /\ \A e \in edges : e.n = 1

\* a run that was interrupted, started over and has ended with nodes and
\* relationships in the store
C9_Witness ==
    /\ LoadedClean
    /\ restarts = 1
    /\ nodes # {}
    /\ edges # {}

--------------------------------------------------------------------------
(* C10 *)

LinesOf(b) == {i \in 1..Len(out) : out[i].shard = b}

\* C10: a query that fails in a load step is logged as an error, once, and not
\* run again in that step; the run is not stopped: the next loader cell is
\* executed, and a run that reaches its end has executed every loader cell.
C10_FailureLoggedRunGoesOn ==
    /\ \A b \in failed :
          /\ Cardinality(LinesOf(b)) = 1
          /\ \A i \in LinesOf(b) : out[i].level = "ERROR"
    /\ failed # {} => pc \in FirstLoad..Done
    /\ everFailed => pc # Aborted
    /\ pc \in FirstLoad..(Done - 1) => ENABLED RunLoad
    /\ pc = Done => Len(issued) = Len(LoaderCells)

\* a run in which the store failed every query of the first loader cell and
\* which went on to its end
C10_Witness ==
    /\ pc = Done
    /\ everFailed
    /\ failed = {}
    /\ restarts = 0
    /\ NodesWith("Article", "title", tA) = {}
    /\ NodesWith("Author", "id", <<"7">>) # {}

--------------------------------------------------------------------------
(* The extraction claims: what a run of the extraction cell over a shard   *)
(* writes, told from the files of the shard.                               *)

\* the cell runs over shard b and ends without an exception
Extracts(b) == ExtractCell(b) /\ ~CellRaises(b)

\* the files of the shard that parse
Parsed(files) == SelectSeq(files, LAMBDA f : ~f.malformed)

IsRedirect(d) == d.type = "redirect"

IsCategoryPage(d) == ~IsRedirect(d) /\ d.namespace = CategoryNamespace

IsArticle(d) == ~IsRedirect(d) /\ ~IsCategoryPage(d)

--------------------------------------------------------------------------
(* C11 *)

\* C11 (as claimed): a file that does not parse is logged and skipped: the
\* cell does not end in an exception because of it, and the tables it writes
\* are those it writes for the other files of the shard alone, wherever in the
\* shard the bad file is.
C11_MalformedSkipped ==
    [][\A b \in ShardSet :
          LET clean == ExtractLoop(NewLists(data), Parsed(input[b]), 1)
          IN  (ExtractCell(b) /\ ~clean.raised) =>
                  /\ ~CellRaises(b)
                  /\ Len(out') = Len(input[b]) - Len(Parsed(input[b]))
                  /\ \E people \in Orders(clean.persons) : csv'[b] = SaveAll(clean, people)
      ]_vars

--------------------------------------------------------------------------
(* C12 *)

\* the record with every optional key present, an absent one as the empty list
Filled(d) ==
    [d EXCEPT !.keys = OptionalKeys,
              !.authors = IF "authors" \in d.keys THEN @ ELSE <<>>,
              !.sections = IF "sections" \in d.keys THEN @ ELSE <<>>,
              !.links = IF "links" \in d.keys THEN @ ELSE <<>>,
              !.categories = IF "categories" \in d.keys THEN @ ELSE <<>>]

\* C12 (as claimed): over a shard all of whose files parse, a record without
\* its authors, sections, links or categories list is processed as if the list
\* were empty: the cell ends without an exception and writes the tables it
\* writes for the records with the absent lists put in empty, the Article row
\* of the record among them.
C12_MissingFieldIsEmpty ==
    [][\A b \in ShardSet :
          LET filled == [i \in 1..Len(input[b]) |-> Filled(input[b][i])]
              full == ExtractLoop(NewLists(data), filled, 1)
          IN  (ExtractCell(b) /\ Parsed(input[b]) = input[b]) =>
                  /\ ~CellRaises(b)
                  /\ \E people \in Orders(full.persons) : csv'[b] = SaveAll(full, people)
                  /\ \A i \in 1..Len(input[b]) :
                        IsArticle(input[b][i]) =>
                            \E j \in 1..Len(csv'[b].articles) :
                                csv'[b].articles[j].title = input[b][i].title
      ]_vars

--------------------------------------------------------------------------
(* C13 *)

Iterations(b) == 1..Len(input[b])

\* The record the i-th iteration of the loop over shard b works on: that of
\* the last file that parsed, or the one `data` was left bound to.
Handled(b, i) ==
    LET ok == {j \in 1..i : ~input[b][j].malformed}
    IN  IF ok = {} THEN data[1]
        ELSE input[b][CHOOSE j \in ok : \A k \in (j + 1)..i : k \notin ok]

\* <<i, k>>: the k-th link of the content-article record of the i-th iteration
Links(b) ==
    UNION {{<<i, k>> : k \in 1..Len(Handled(b, i).links)} :
           i \in {j \in Iterations(b) : IsArticle(Handled(b, j))}}

LinkSource(b, p) == Handled(b, p[1]).title

LinkTarget(b, p) == Handled(b, p[1]).links[p[2]]

\* the article the link is to: the target, or its part before the first '#'
LinkedArticle(t) == IF HasHash(t) THEN BeforeHash(t) ELSE t

\* C13: a run of the extraction cell writes, for every link target with a '#'
\* of every content-article record it works on, exactly one
\* article_to_section_links row, and exactly one article_links row to the part
\* before the first '#' if that part is not empty, none if it is empty: each
\* row is in the table as many times as there are links it is the row of.
C13_HashLinks ==
    [][\A b \in ShardSet : Extracts(b) =>
          \A p \in Links(b) :
              LET a == LinkSource(b, p)
                  t == LinkTarget(b, p)
                  toSection == [article |-> a, section |-> Take(t, MaxKeyLen)]
                  toArticle == [from |-> a, to |-> BeforeHash(t)]
                  sectionRows == csv'[b].article_to_section_links
                  articleRows == csv'[b].article_links
              IN  HasHash(t) =>
                    /\ Cardinality({j \in 1..Len(sectionRows) : sectionRows[j] = toSection})
                         = Cardinality({q \in Links(b) :
                                          /\ LinkSource(b, q) = a
                                          /\ HasHash(LinkTarget(b, q))
                                          /\ Take(LinkTarget(b, q), MaxKeyLen) = toSection.section})
                    /\ Cardinality({j \in 1..Len(articleRows) : articleRows[j] = toArticle})
                         = Cardinality({q \in Links(b) :
                                          /\ LinkSource(b, q) = a
                                          /\ LinkedArticle(LinkTarget(b, q)) = toArticle.to
                                          /\ HasHash(LinkTarget(b, q)) => toArticle.to # <<>>})
      ]_vars

\* the tables of a shard with the links A -> B#Sec1, A -> C and A -> #Sec1
C13_Witness ==
    /\ input["000"] = <<rA, rA2>>
    /\ csv["000"].written
    /\ Len(csv["000"].article_to_section_links) = 2
    /\ Len(csv["000"].article_links) = 2

--------------------------------------------------------------------------
(* C14 *)

\* <<i, k>>: the k-th author entry of the content-article record of the i-th
\* iteration, entries with neither id nor name left out
NamedAuthors(b) ==
    UNION {{<<i, k>> : k \in {n \in 1..Len(Handled(b, i).authors) :
                               Handled(b, i).authors[n] # Author(None, None)}} :
           i \in {j \in Iterations(b) : IsArticle(Handled(b, j))}}

\* the persons row claimed for an author entry that has an id or a name
PersonOf(e) ==
    IF e.id # None /\ e.name # None THEN [id |-> ToText(e.id), name |-> ToText(e.name)]
    ELSE IF e.id # None THEN [id |-> ToText(e.id), name |-> ToText(e.id)]
    ELSE [id |-> ToText(e.name), name |-> ToText(e.name)]

\* C14 (as claimed): the persons table holds the rows of the author entries
\* that have an id or a name, (id, name) for an entry with both and the one
\* value twice for an entry with one of them, and the author_links table one
\* row for each of these entries; an entry with neither has no row.
C14_AuthorEntries ==
    [][\A b \in ShardSet : Extracts(b) =>
          /\ {csv'[b].persons[j] : j \in 1..Len(csv'[b].persons)}
               = {PersonOf(Handled(b, p[1]).authors[p[2]]) : p \in NamedAuthors(b)}
          /\ \A p \in NamedAuthors(b) :
                LET row == [article |-> Handled(b, p[1]).title,
                            person |-> PersonOf(Handled(b, p[1]).authors[p[2]]).id]
                IN  Cardinality({j \in 1..Len(csv'[b].author_links) :
                                    csv'[b].author_links[j] = row})
                      = Cardinality({q \in NamedAuthors(b) :
                                       /\ Handled(b, q[1]).title = row.article
                                       /\ PersonOf(Handled(b, q[1]).authors[q[2]]).id = row.person})
          /\ Len(csv'[b].author_links) = Cardinality(NamedAuthors(b))
      ]_vars

--------------------------------------------------------------------------
(* C15 *)

\* <<i, k>>: the k-th section of the content-article record of the i-th iteration
Sections(b) ==
    UNION {{<<i, k>> : k \in 1..(IF "sections" \in Handled(b, i).keys
                                 THEN Len(Handled(b, i).sections) ELSE 0)} :
           i \in {j \in Iterations(b) : IsArticle(Handled(b, j))}}

\* '<article title>#<section title>'
TitleHashTitle(title, stitle) == title \o <<"#">> \o stitle

\* the section keys of the link targets with a '#', cut to 400 characters
LinkKeys(b) ==
    {Take(LinkTarget(b, p), MaxKeyLen) : p \in {q \in Links(b) : HasHash(LinkTarget(b, q))}}

\* the keys in a column of a table
Column(rows, col) == {rows[j][col] : j \in 1..Len(rows)}

\* C15 (as claimed): the Section ids a run of the cell writes are the first 400
\* characters of '<article title>#<section title>' for the sections of the
\* records, the section keys of the article_to_section_links rows the first
\* 400 characters of the link targets, and none is longer than 400.
C15_SectionKeys ==
    [][\A b \in ShardSet : Extracts(b) =>
          /\ Column(csv'[b].sections, "id")
               = {Take(TitleHashTitle(Handled(b, p[1]).title,
                                      Handled(b, p[1]).sections[p[2]].title), MaxKeyLen) :
                  p \in Sections(b)}
          /\ Column(csv'[b].article_to_section_links, "section") = LinkKeys(b)
          /\ \A k \in Column(csv'[b].sections, "id")
                      \cup Column(csv'[b].article_to_section_links, "section") :
                Len(k) <= MaxKeyLen
      ]_vars

\* C15 (amended): the Section ids a run of the cell writes are the first 400
\* characters of '<article title>#<section title>', the section title being
\* the title without the whitespace around it, as the Section row has it; the
\* section keys of the article_to_section_links rows are the first 400
\* characters of the link targets; none is longer than 400.
C15_SectionKeysStripped ==
    [][\A b \in ShardSet : Extracts(b) =>
          /\ {<<csv'[b].sections[j].id, csv'[b].sections[j].title>> :
                 j \in 1..Len(csv'[b].sections)}
               = {<<Take(TitleHashTitle(Handled(b, p[1]).title,
                                        Strip(Handled(b, p[1]).sections[p[2]].title)),
                         MaxKeyLen),
                    Strip(Handled(b, p[1]).sections[p[2]].title)>> :
                  p \in Sections(b)}
          /\ Column(csv'[b].section_links, "from") = Column(csv'[b].sections, "id")
          /\ Column(csv'[b].article_to_section_links, "section") = LinkKeys(b)
          /\ \A k \in Column(csv'[b].sections, "id")
                      \cup Column(csv'[b].article_to_section_links, "section") :
                Len(k) <= MaxKeyLen
      ]_vars

\* the tables of a section and a link whose keys were cut to 400 characters,
\* and of a section whose title was between blanks
C15_Witness ==
    /\ input["000"] = <<rLong>>
    /\ input["001"] = <<rC>>
    /\ csv["000"].written
    /\ csv["001"].written
    /\ Len(csv["000"].sections[1].id) = MaxKeyLen
    /\ Len(csv["000"].article_to_section_links[1].section) = MaxKeyLen
    /\ csv["001"].sections[1].id = tC \o <<"#", "T">>

--------------------------------------------------------------------------
(* C16 *)

Redirects(b) == {i \in Iterations(b) : IsRedirect(Handled(b, i))}

CategoryPages(b) == {i \in Iterations(b) : IsCategoryPage(Handled(b, i))}

Articles(b) == {i \in Iterations(b) : IsArticle(Handled(b, i))}

\* no row of an article, a section, an author link, a link or a category
\* membership of the page `title` is in the tables
NoContentRows(tables, title) ==
    /\ \A j \in 1..Len(tables.articles) : tables.articles[j].title # title
    /\ \A j \in 1..Len(tables.section_links) : tables.section_links[j].to # title
    /\ \A j \in 1..Len(tables.author_links) : tables.author_links[j].article # title
    /\ \A j \in 1..Len(tables.article_links) : tables.article_links[j].from # title
    /\ \A j \in 1..Len(tables.article_to_section_links) :
          tables.article_to_section_links[j].article # title
    /\ \A j \in 1..Len(tables.article_to_category) :
          tables.article_to_category[j].article # title

\* the ids and names of the author entries of the content-article records
AuthorTexts(b) ==
    UNION {{ToText(Handled(b, i).authors[k].id), ToText(Handled(b, i).authors[k].name)} :
           <<i, k>> \in UNION {{<<j, n>> : n \in 1..Len(Handled(b, j).authors)} : j \in Articles(b)}}

\* every persons row is of an author entry of a content-article record
PersonsOfArticles(b, tables) ==
    \A j \in 1..Len(tables.persons) : tables.persons[j].id \in AuthorTexts(b)

\* C16: a run of the extraction cell writes one redirects row for every
\* redirect record it works on, from the record's title to its target up to
\* the first '#', and no articles, sections, persons, author_links,
\* article_links, article_to_section_links, article_to_category or categories
\* row for the record.
C16_RedirectRow ==
    [][\A b \in ShardSet : Extracts(b) =>
          /\ Len(csv'[b].redirects) = Cardinality(Redirects(b))
          /\ PersonsOfArticles(b, csv'[b])
          /\ \A i \in Redirects(b) :
                LET d == Handled(b, i)
                    row == [from |-> d.title, to |-> BeforeHash(d.target)]
                IN  /\ Cardinality({j \in 1..Len(csv'[b].redirects) : csv'[b].redirects[j] = row})
                         = Cardinality({k \in Redirects(b) :
                                          /\ Handled(b, k).title = d.title
                                          /\ BeforeHash(Handled(b, k).target) = row.to})
                    /\ d.title \notin {Handled(b, k).title : k \in Articles(b)}
                          => NoContentRows(csv'[b], d.title)
                    /\ d.title \notin {Handled(b, k).title : k \in CategoryPages(b)}
                          => \A j \in 1..Len(csv'[b].categories) :
                                csv'[b].categories[j].title # CategoryLabel \o d.title
      ]_vars

\* the tables of a shard of two redirects, R -> B#Sec1 and Q -> A#Sec1, the
\* second with an author, a section, a link and a category in its record
C16_Witness ==
    /\ input["000"] = <<rR, rRK>>
    /\ csv["000"].written
    /\ csv["000"].redirects = <<[from |-> tR, to |-> tB], [from |-> <<"Q">>, to |-> tA]>>
    /\ csv["000"].persons = <<>>
    /\ csv["000"].articles = <<>>

--------------------------------------------------------------------------
(* C17 *)

\* the iterations that work on a record of the title of the i-th one's
SameTitle(b, i) == {k \in Iterations(b) : Handled(b, k).title = Handled(b, i).title}

\* C17 (as claimed): when a run of the extraction cell works on the same
\* record more than once, its entity tables hold the record's entities once:
\* one articles row of its title, one sections row of each of its section ids,
\* one categories row of its category title, one persons row of each author id.
C17_NoDuplicateEntities ==
    [][\A b \in ShardSet : Extracts(b) =>
          \A i \in Iterations(b) :
              LET d == Handled(b, i)
              IN  (/\ Cardinality(SameTitle(b, i)) > 1
                   /\ \A k \in SameTitle(b, i) : Handled(b, k) = d)
                  => /\ IsArticle(d) =>
                          /\ Cardinality({j \in 1..Len(csv'[b].articles) :
                                            csv'[b].articles[j].title = d.title}) = 1
                          /\ \A x \in Column(csv'[b].sections, "id") :
                                Cardinality({j \in 1..Len(csv'[b].sections) :
                                               csv'[b].sections[j].id = x}) = 1
                          /\ \A x \in Column(csv'[b].persons, "id") :
                                Cardinality({j \in 1..Len(csv'[b].persons) :
                                               csv'[b].persons[j].id = x}) = 1
                     /\ IsCategoryPage(d) =>
                          Cardinality({j \in 1..Len(csv'[b].categories) :
                                         csv'[b].categories[j].title = CategoryLabel \o d.title}) = 1
      ]_vars

--------------------------------------------------------------------------
(* C18 *)

\* the two sets of tables hold the same extraction output: the lists row for
\* row, and the same set of persons
SameOutput(t1, t2) ==
    /\ [t1 EXCEPT !.persons = <<>>] = [t2 EXCEPT !.persons = <<>>]
    /\ Column(t1.persons, "id") = Column(t2.persons, "id")
    /\ {t1.persons[j] : j \in 1..Len(t1.persons)} = {t2.persons[j] : j \in 1..Len(t2.persons)}

\* C18 (as claimed): when the tables of a shard are written again from the
\* same extraction output, every table, persons included, has the same rows in
\* the same order as before.
C18_SameTablesTwice ==
    [][\A b \in ShardSet :
          (/\ csv[b].written
           /\ Extracts(b)
           /\ SameOutput(csv[b], csv'[b]))
          => csv'[b] = csv[b]
      ]_vars

--------------------------------------------------------------------------
(* C19 *)

\* C19: a run of the extraction cell puts every record it works on into one
\* of the three tables: a record of type redirect into redirects, whatever its
\* namespace; any other record of namespace 14 into categories; every other
\* record, whatever its namespace, into articles.  Each table has as many rows
\* as there are records of its class, and the rows of a title as many times as
\* records of the class have the title.
C19_OneClass ==
    [][\A b \in ShardSet : Extracts(b) =>
          /\ Len(csv'[b].redirects) = Cardinality(Redirects(b))
          /\ Len(csv'[b].categories) = Cardinality(CategoryPages(b))
          /\ Len(csv'[b].articles) = Cardinality(Articles(b))
          /\ Len(csv'[b].redirects) + Len(csv'[b].categories) + Len(csv'[b].articles)
               = Len(input[b])
          /\ \A i \in Iterations(b) :
                LET d == Handled(b, i)
                IN  /\ Cardinality({j \in 1..Len(csv'[b].redirects) :
                                      csv'[b].redirects[j].from = d.title})
                         = Cardinality(Redirects(b) \cap SameTitle(b, i))
                    /\ Cardinality({j \in 1..Len(csv'[b].categories) :
                                      csv'[b].categories[j].title = CategoryLabel \o d.title})
                         = Cardinality(CategoryPages(b) \cap SameTitle(b, i))
                    /\ Cardinality({j \in 1..Len(csv'[b].articles) :
                                      csv'[b].articles[j].title = d.title})
                         = Cardinality(Articles(b) \cap SameTitle(b, i))
      ]_vars

\* the tables of a shard of a redirect of namespace 14 and a page of namespace 2
C19_Witness ==
    /\ input["000"] = <<rRK, rU>>
    /\ csv["000"].written
    /\ Len(csv["000"].redirects) = 1
    /\ csv["000"].categories = <<>>
    /\ Len(csv["000"].articles) = 1
    /\ csv["000"].articles[1].namespace_id = <<"2">>

--------------------------------------------------------------------------
(* C20 *)

\* the categories row claimed for a category-page record
CategoryRowOf(d) ==
    [id |-> IntToStr(d.id), title |-> CategoryLabel \o d.title,
     namespace_id |-> IntToStr(d.namespace), sha1 |-> d.sha1]

\* C20: a run of the extraction cell writes one categories row for every
\* category-page record it works on, titled 'Kategorie:' followed by the
\* record's title, and no articles, sections, persons, author_links,
\* article_links, article_to_section_links, article_to_category or redirects
\* row for the record.
C20_CategoryRow ==
    [][\A b \in ShardSet : Extracts(b) =>
          /\ PersonsOfArticles(b, csv'[b])
          /\ \A i \in CategoryPages(b) :
                LET d == Handled(b, i)
                IN  /\ Cardinality({j \in 1..Len(csv'[b].categories) :
                                      csv'[b].categories[j] = CategoryRowOf(d)})
                         = Cardinality({k \in CategoryPages(b) :
                                          CategoryRowOf(Handled(b, k)) = CategoryRowOf(d)})
                    /\ Cardinality({j \in 1..Len(csv'[b].categories) :
                                      csv'[b].categories[j].id = IntToStr(d.id)})
                         = Cardinality({k \in CategoryPages(b) : Handled(b, k).id = d.id})
                    /\ d.title \notin {Handled(b, k).title : k \in Articles(b)}
                          => NoContentRows(csv'[b], d.title)
                    /\ d.title \notin {Handled(b, k).title : k \in Redirects(b)}
                          => \A j \in 1..Len(csv'[b].redirects) :
                                csv'[b].redirects[j].from # d.title
      ]_vars

\* the tables of a shard of the one category page K, whose record has an
\* author, a section, a link and a category
C20_Witness ==
    /\ input["000"] = <<rK>>
    /\ csv["000"].written
    /\ csv["000"].categories = <<CategoryRowOf(rK)>>
    /\ csv["000"].categories[1].title = CategoryLabel \o tK
    /\ csv["000"].persons = <<>>
    /\ csv["000"].sections = <<>>
    /\ csv["000"].article_links = <<>>
    /\ csv["000"].article_to_category = <<>>

--------------------------------------------------------------------------
(* C21 *)

\* no two nodes of the label have the same value of the property
UniqueBy(label, prop) ==
    \A x, y \in nodes :
        (/\ x.label = label
         /\ y.label = label
         /\ prop \in DOMAIN x.props
         /\ prop \in DOMAIN y.props
         /\ x.props[prop] = y.props[prop])
        => x = y

\* C21 (as claimed): whatever cells have run, no two Article nodes have the
\* same title, no two Category nodes the same title, no two Author nodes the
\* same id and no two Section nodes the same id.
C21_UniqueKeys ==
    /\ UniqueBy("Article", "title")
    /\ UniqueBy("Category", "title")
    /\ UniqueBy("Author", "id")
    /\ UniqueBy("Section", "id")

--------------------------------------------------------------------------
(* C22 *)

\* C22 (as claimed): after a full load, every redirects row whose target is
\* the title of an Article node has an Article node of its own title, with a
\* REDIRECTS_TO relationship to the target.
C22_RedirectsLoaded ==
    LoadedClean =>
        \A b \in WrittenShards :
            \A i \in 1..Len(csv[b].redirects) :
                \A target \in NodesWith("Article", "title", csv[b].redirects[i].to) :
                    \E source \in NodesWith("Article", "title", csv[b].redirects[i].from) :
                        HasEdge("REDIRECTS_TO", source.id, target.id)

--------------------------------------------------------------------------
(* C23 *)

\* the (id, name) tuples get_authors returns for the content-article records
\* a run of the cell over shard b works on
Observed(b) ==
    UNION {{get_authors(Handled(b, i))[k] : k \in 1..Len(get_authors(Handled(b, i)))} :
           i \in Articles(b)}

PersonRow(t) == [id |-> ToText(t[1]), name |-> ToText(t[2])]

PersonRows(tables) == {tables.persons[j] : j \in 1..Len(tables.persons)}

--------------------------------------------------------------------------
(* C24 *)

\* the records a run of the cell over shard b works on, in order
HandledSeq(b) == [i \in Iterations(b) |-> Handled(b, i)]

\* the orders of n things
OrdersOf(n) == {p \in [1..n -> 1..n] : \A i, j \in 1..n : p[i] = p[j] => i = j}

\* the records of H at the indices in S, in the order of H
Group(H, S) ==
    LET F[i \in 0..Len(H)] ==
            IF i = 0 THEN <<>>
            ELSE IF i \in S THEN Append(F[i - 1], H[i]) ELSE F[i - 1]
    IN  F[Len(H)]

\* the persons set the loop leaves after the files
Accumulated(files) == ExtractLoop(NewLists(<<>>), files, 1).persons

\* C24: the persons a run of the cell writes are those the loop accumulates
\* over the same records in any other order, and the union of what it
\* accumulates over any two groups the records are split into.
C24_OrderIndependent ==
    [][\A b \in ShardSet : Extracts(b) =>
          LET H == HandledSeq(b)
          IN  /\ \A p \in OrdersOf(Len(H)) :
                    {PersonRow(t) : t \in Accumulated([i \in 1..Len(H) |-> H[p[i]]])}
                      = PersonRows(csv'[b])
              /\ \A S \in SUBSET (1..Len(H)) :
                    {PersonRow(t) : t \in Accumulated(Group(H, S))
                                          \cup Accumulated(Group(H, (1..Len(H)) \ S))}
                      = PersonRows(csv'[b])
      ]_vars

\* the persons table of a shard of two articles with different authors
C24_Witness ==
    /\ input["000"] = <<rA, rB>>
    /\ csv["000"].written
    /\ PersonRows(csv["000"]) = {[id |-> <<"7">>, name |-> <<"u">>],
                                 [id |-> <<"w">>, name |-> <<"w">>]}

--------------------------------------------------------------------------
(* C25 *)

\* the tables, the persons rows of shard b in the order p
Reordered(b, p) ==
    [csv EXCEPT ![b].persons = [i \in 1..Len(csv[b].persons) |-> csv[b].persons[p[i]]]]

\* C25 (as claimed): the nodes the store holds after the persons loader cell
\* has run, their properties included, are those it would hold had the rows of
\* a persons table been in any other order.
C25_RowOrderIrrelevant ==
    [][LoadCell(persons_query_template, {}) =>
          \A b \in ShardSet :
              \A p \in OrdersOf(Len(csv[b].persons)) :
                  import_data(nodes, edges, Reordered(b, p), persons_query_template, {}).nodes
                    = nodes'
      ]_vars

--------------------------------------------------------------------------
(* C27 *)

\* the containment row claimed for a section of a record
ContainmentOf(d, k) ==
    [from |-> Take(TitleHashTitle(d.title, Strip(d.sections[k].title)), MaxKeyLen),
     to |-> d.title]

\* C27: a run of the extraction cell writes one sections row and one
\* section_links row (section id -> article title) for every section of every
\* content-article record it works on: the two tables have as many rows as
\* there are such sections, the j-th section_links row is from the id of the
\* j-th sections row, and every containment row is there as many times as
\* sections have it.
C27_SectionAndContainment ==
    [][\A b \in ShardSet : Extracts(b) =>
          /\ Len(csv'[b].sections) = Cardinality(Sections(b))
          /\ Len(csv'[b].section_links) = Len(csv'[b].sections)
          /\ \A j \in 1..Len(csv'[b].section_links) :
                /\ j <= Len(csv'[b].sections)
                /\ csv'[b].section_links[j].from = csv'[b].sections[j].id
          /\ Column(csv'[b].section_links, "from") \subseteq Column(csv'[b].sections, "id")
          /\ \A p \in Sections(b) :
                LET row == ContainmentOf(Handled(b, p[1]), p[2])
                IN  Cardinality({j \in 1..Len(csv'[b].section_links) :
                                    csv'[b].section_links[j] = row})
                      = Cardinality({q \in Sections(b) :
                                       ContainmentOf(Handled(b, q[1]), q[2]) = row})
      ]_vars

\* the tables of a shard of the one article B with its section Sec1
C27_Witness ==
    /\ input["000"] = <<rB>>
    /\ csv["000"].written
    /\ Len(csv["000"].sections) = 1
    /\ csv["000"].section_links = <<[from |-> tBSec1, to |-> tB]>>

--------------------------------------------------------------------------
(* C28 *)

\* C28 (as claimed): after a run in which no query failed, the rows of the
\* node tables of every shard are in the store: every articles row has its
\* Article node, every persons row its Author node, every sections row its
\* Section node.
C28_EveryShardLoaded ==
    LoadedClean =>
        \A b \in WrittenShards :
            /\ \A i \in 1..Len(csv[b].articles) :
                  NodesWith("Article", "title", csv[b].articles[i].title) # {}
            /\ \A i \in 1..Len(csv[b].persons) :
                  NodesWith("Author", "id", csv[b].persons[i].id) # {}
            /\ \A i \in 1..Len(csv[b].sections) :
                  NodesWith("Section", "id", csv[b].sections[i].id) # {}

--------------------------------------------------------------------------
(* C29 *)

\* the label of the node of the identity, "" when the store has no such node
LabelOf(id) ==
    IF \E x \in nodes : x.id = id THEN (CHOOSE x \in nodes : x.id = id).label ELSE ""

--------------------------------------------------------------------------
(* C30 *)

\* C30: in the tables of every shard the extraction cell has written, the
\* person of every author_links row is the id of a persons row and its article
\* the title of an articles row.
C30_AuthorLinksRefer ==
    \A b \in WrittenShards :
        \A j \in 1..Len(csv[b].author_links) :
            /\ csv[b].author_links[j].person \in Column(csv[b].persons, "id")
            /\ csv[b].author_links[j].article \in Column(csv[b].articles, "title")

\* the tables of article B, whose one named author has a name and no id
C30_Witness ==
    /\ input["000"] = <<rB>>
    /\ csv["000"].written
    /\ csv["000"].author_links = <<[article |-> tB, person |-> <<"w">>]>>
    /\ csv["000"].persons = <<[id |-> <<"w">>, name |-> <<"w">>]>>

--------------------------------------------------------------------------
(* C26 *)

\* C26 (as claimed): once clear() has run, the store has an index on
\* Article.title, on Author.id, on Section.id and on Category.title.
C26_IndexesCreated ==
    pc \in FirstLoad..Done =>
        {IndexStatement("Article", "title"), IndexStatement("Author", "id"),
         IndexStatement("Section", "id"), IndexStatement("Category", "title")}
          \subseteq indexes

====
